---------------------------- MODULE Spec2Model ----------------------------
(***************************************************************************)
(* A model of the regex-driven lexer of pl/lex.py and of its XML extension *)
(* pl/langs/xml.py.                                                        *)
(*                                                                         *)
(* Text is a sequence of one-character strings.  Positions are records     *)
(* [row, col] with 0-based row and col as in class Cursor; a line of the   *)
(* source is a TLA+ sequence, so line `row` is lines[row + 1] and its      *)
(* character `col` is lines[row + 1][col + 1].                             *)
(*                                                                         *)
(* A value that Python returns "or raises" / "or None" is modelled as a    *)
(* sequence of length 0 (None, or the exception) or 1 (the value).         *)
(***************************************************************************)
EXTENDS Integers, Sequences, FiniteSets, TLC

VARIABLES
    lexer,    \* the lexer object shared by the sessions
    src,      \* src[s]: the Source of session s (read-only after Init)
    pos,      \* pos[s]: Instance.pos, the cursor of session s
    result,   \* result[s]: the local list `result` of Instance.lex
    pc,       \* pc[s]: where session s stands in Instance.lex
    err,      \* err[s]: the raised Lexer.Error (length 0 or 1)
    steps,    \* steps[s]: history of the parse_token calls of session s
    call      \* the last direct call of a Source method, with what it gave

vars == <<lexer, src, pos, result, pc, err, steps, call>>

Sessions == {1, 2}

-----------------------------------------------------------------------------
(* Bounds of the model *)

\* longest raw text lexed under Spec
MaxSrcLen == 4
\* a run that emits Tokens of length 0 is followed up to this many Tokens
MaxTokens == 5
\* most blank lines before, and after, the body of a text lexed under SpecDiag
MaxDiagPad == 9
\* longest body of a text lexed under SpecDiag
MaxDiagBody == 2
\* largest n of a direct call Source.next(pos, n=n)
MaxHops == 3
\* longest raw text lexed under SpecTwo
MaxTwoLen == 2

-----------------------------------------------------------------------------
(* Small sequence helpers *)

Last(s) == s[Len(s)]

Reverse(s) == [i \in 1..Len(s) |-> s[Len(s) + 1 - i]]

Max(a, b) == IF a >= b THEN a ELSE b

Min(a, b) == IF a <= b THEN a ELSE b

\* all sequences over A of length at most n
SeqsUpTo(A, n) == UNION {[1..k -> A] : k \in 0..n}

-----------------------------------------------------------------------------
(* Cursor, CursorRange *)

Cursor(row, col) == [row |-> row, col |-> col]

\* Cursor.__lt__
CursorLt(a, b) == a.row < b.row \/ (a.row = b.row /\ a.col < b.col)

\* total_ordering: a <= b
CursorLe(a, b) == CursorLt(a, b) \/ a = b

\* CursorRange.__post_init__ raises ValueError when start > end
RangeRaises(start, end) == CursorLt(end, start)

\* mutant of CursorRange: the two cursors change places
CursorRangeSwapped(start, end) == [start |-> end, end |-> start]

CursorRange(start, end) == [start |-> start, end |-> end]

-----------------------------------------------------------------------------
(* Source *)

\* str.split("\n"): the lines between the newline characters
RECURSIVE SplitFrom(_, _, _)
SplitFrom(raw, i, cur) ==
    IF i > Len(raw) THEN <<cur>>
    ELSE IF raw[i] = "\n" THEN <<cur>> \o SplitFrom(raw, i + 1, <<>>)
    ELSE SplitFrom(raw, i + 1, Append(cur, raw[i]))

\* mutant of Source: the raw text is split as str.splitlines does, which
\* gives no last line after a final line terminator
SourceSplitlines(raw) ==
    LET ls == SplitFrom(raw, 1, <<>>)
    IN  [lines |-> IF Len(ls) > 1 /\ ls[Len(ls)] = <<>>
                   THEN SubSeq(ls, 1, Len(ls) - 1) ELSE ls]

\* Source.__post_init__
Source(raw) == [lines |-> SplitFrom(raw, 1, <<>>)]

\* Source.rows
Rows(s) == Len(s.lines)

\* Source.cols
Cols(s, row) == Len(s.lines[row + 1])

\* Source.valid
Valid(s, p) == p.row < Rows(s) /\ p.col <= Cols(s, p.row)

\* Source.char_at: a character, "\n" at the end of a line, "eof" at the end of
\* the last line
char_at(s, p) ==
    IF p.col = Cols(s, p.row)
    THEN (IF p.row = Rows(s) - 1 THEN "eof" ELSE "\n")
    ELSE s.lines[p.row + 1][p.col + 1]

\* Source.next with n = 1: <<>> stands for StopIteration
next1(s, p) ==
    IF char_at(s, p) = "eof" THEN <<>>
    ELSE IF p.col = Cols(s, p.row) THEN <<Cursor(p.row + 1, 0)>>
    ELSE <<Cursor(p.row, p.col + 1)>>

\* Source.next(pos, n=n): n applications of next (n = 0 returns pos)
RECURSIVE nextn(_, _, _)
\* mutant of nextn: the loop stops at the end of input and returns the
\* position it reached
nextnStopsAtEof(s, p, n) ==
    IF n = 1 THEN next1(s, p)
    ELSE IF n <= 0 THEN <<p>>
    ELSE LET q == next1(s, p)
         IN  IF q = <<>> THEN <<p>> ELSE nextn(s, Head(q), n - 1)

nextn(s, p, n) ==
    IF n = 1 THEN next1(s, p)
    ELSE IF n <= 0 THEN <<p>>
    ELSE LET q == next1(s, p)
         IN  IF q = <<>> THEN <<>> ELSE nextn(s, Head(q), n - 1)

\* Source.range(start, end): the positions from start up to, not including,
\* end; with end = <<>> (None) up to and including the end-of-input position
RECURSIVE range(_, _, _)
range(s, start, end) ==
    IF <<start>> = end THEN <<>>
    ELSE <<start>> \o (IF char_at(s, start) = "eof" THEN <<>>
                       ELSE range(s, Head(next1(s, start)), end))

\* Source.len
SrcLen(s, rng) == Len(range(s, rng.start, <<rng.end>>))

\* mutant of str_at: the position at the end of the range is taken too
str_atInclusive(s, rng) ==
    LET ps == range(s, rng.start, next1(s, rng.end))
    IN  [i \in 1..Len(ps) |-> char_at(s, ps[i])]

\* Source.str_at: the logical characters over the range, joined
str_at(s, rng) ==
    LET ps == range(s, rng.start, <<rng.end>>)
    IN  [i \in 1..Len(ps) |-> char_at(s, ps[i])]

\* len() of a joined string: the end-of-input marker is the text "eof"
RECURSIVE PyLen(_)
PyLen(str) ==
    IF str = <<>> THEN 0
    ELSE (IF Head(str) = "eof" THEN 3 ELSE 1) + PyLen(Tail(str))

-----------------------------------------------------------------------------
(* Patterns.  A compiled regex is a tree:                                   *)
(*   [op |-> "set",  chars |-> S]   one character of S                      *)
(*   [op |-> "nset", chars |-> S]   one character not in S                  *)
(*   [op |-> "cat",  args |-> <<r1, ..., rn>>]   r1 r2 ... rn               *)
(*   [op |-> "alt",  args |-> <<r1, ..., rn>>]   r1 | r2 | ... | rn         *)
(*   [op |-> "star", arg |-> r]     r* (greedy)                             *)
(* Ends(r, line, i) is the sequence of the 1-based indices at which a match *)
(* of r starting at index i of line can end, in the order in which the      *)
(* backtracking matcher of `re` tries them; re.match takes the first.       *)

Set(S) == [op |-> "set", chars |-> S]

NSet(S) == [op |-> "nset", chars |-> S]

Cat(rs) == [op |-> "cat", args |-> rs]

Alt(rs) == [op |-> "alt", args |-> rs]

Star(r) == [op |-> "star", arg |-> r]

Lit(c) == Set({c})

RECURSIVE Ends(_, _, _), EndsAll(_, _, _), CatEnds(_, _, _, _), AltEnds(_, _, _, _)
Ends(r, line, i) ==
    CASE r.op = "set" ->
           IF i <= Len(line) /\ line[i] \in r.chars THEN <<i + 1>> ELSE <<>>
      [] r.op = "nset" ->
           IF i <= Len(line) /\ line[i] \notin r.chars THEN <<i + 1>> ELSE <<>>
      [] r.op = "cat" -> CatEnds(r.args, 1, line, <<i>>)
      [] r.op = "alt" -> AltEnds(r.args, 1, line, i)
      [] r.op = "star" ->
           EndsAll(r, line, SelectSeq(Ends(r.arg, line, i), LAMBDA e : e > i))
           \o <<i>>

\* the ends of r from each of the starts, in order
EndsAll(r, line, starts) ==
    IF starts = <<>> THEN <<>>
    ELSE Ends(r, line, Head(starts)) \o EndsAll(r, line, Tail(starts))

CatEnds(args, k, line, starts) ==
    IF k > Len(args) THEN starts
    ELSE CatEnds(args, k + 1, line, EndsAll(args[k], line, starts))

AltEnds(args, k, line, i) ==
    IF k > Len(args) THEN <<>>
    ELSE Ends(args[k], line, i) \o AltEnds(args, k + 1, line, i)

\* pattern.match(text): <<>> for None, else <<match.end()>>
ReMatch(regex, text) ==
    LET es == Ends(regex, text, 1)
    IN  IF es = <<>> THEN <<>> ELSE <<Head(es) - 1>>

-----------------------------------------------------------------------------
(* Character classes of the patterns *)

Upper == {"A", "B", "C", "D", "E", "F", "G", "H", "I", "J", "K", "L", "M",
          "N", "O", "P", "Q", "R", "S", "T", "U", "V", "W", "X", "Y", "Z"}

Lower == {"a", "b", "c", "d", "e", "f", "g", "h", "i", "j", "k", "l", "m",
          "n", "o", "p", "q", "r", "s", "t", "u", "v", "w", "x", "y", "z"}

Digit == {"0", "1", "2", "3", "4", "5", "6", "7", "8", "9"}

\* the first class of the Text pattern: the printable characters other than
\* space and <  (the grave accent, which no text of the model holds and the
\* module's syntax cannot quote, is left out)
TextChar == Upper \cup Lower \cup Digit \cup
            {"!", "\"", "#", "$", "%", "&", "'", "(", ")", "*", "+", ",", "-",
             ".", "/", ":", ";", "=", ">", "?", "@", "[", "\\", "]", "^", "_",
             "{", "|", "}", "~"}

\* a literal string, character by character
Word(cs) == Cat([i \in 1..Len(cs) |-> Lit(cs[i])])

-----------------------------------------------------------------------------
(* Token kinds *)

\* Token.define(token_type, regex): a kind is its name and its compiled regex
Define(token_type, regex) == [name |-> token_type, regex |-> regex]

\* mutant of Character: the pattern takes a run of word characters
CharacterGreedy ==
    Define("Character",
           Cat(<<Set(Upper \cup Lower \cup Digit \cup {"_"}),
                 Star(Set(Upper \cup Lower \cup Digit \cup {"_"}))>>))

\* [A-Za-z0-9_]
Character == Define("Character", Set(Upper \cup Lower \cup Digit \cup {"_"}))

\* [A-Za-z_][A-Za-z0-9_]*
Identifier ==
    Define("Identifier",
           Cat(<<Set(Upper \cup Lower \cup {"_"}),
                 Star(Set(Upper \cup Lower \cup Digit \cup {"_"}))>>))

LeftParenthesis == Define("Left Parenthesis", Lit("("))

RightParenthesis == Define("Right Parenthesis", Lit(")"))

LeftAngleBracket == Define("Left Angle Bracket", Lit("<"))

RightAngleBracket == Define("Right Angle Bracket", Lit(">"))

Plus == Define("Plus", Lit("+"))

Asterisk == Define("Asterisk", Lit("*"))

Slash == Define("Slash", Lit("/"))

Equals == Define("Equals", Lit("="))

Question == Define("Question", Lit("?"))

Pipe == Define("Pipe", Lit("|"))

\* <\?xml
OpenXmlDeclaration == Define("Open Xml Declaration", Word(<<"<", "?", "x", "m", "l">>))

\* \?>
CloseXmlDeclaration == Define("Close Xml Declaration", Word(<<"?", ">">>))

\* '[^']*'|"[^"]*"
String ==
    Define("String",
           Alt(<<Cat(<<Lit("'"), Star(NSet({"'"})), Lit("'")>>),
                 Cat(<<Lit("\""), Star(NSet({"\""})), Lit("\"")>>)>>))

\* [A-Za-z0-9][A-Za-z0-9_.-]*
TagName ==
    Define("Tag Name",
           Cat(<<Set(Upper \cup Lower \cup Digit),
                 Star(Set(Upper \cup Lower \cup Digit \cup {"_", ".", "-"}))>>))

\* <!--.*-->
Comment ==
    Define("Comment",
           Cat(<<Word(<<"<", "!", "-", "-">>), Star(NSet({"\n"})),
                 Word(<<"-", "-", ">">>)>>))

\* <!\[CDATA\[[^\]]*\]\]>
Cdata ==
    Define("CDATA",
           Cat(<<Word(<<"<", "!", "[", "C", "D", "A", "T", "A", "[">>),
                 Star(NSet({"]"})), Word(<<"]", "]", ">">>)>>))

OpenTag == Define("Open Tag", Lit("<"))

OpenSelfClosingTag == Define("Open Self-closing Tag", Word(<<"<", "/">>))

CloseOpeningTag == Define("Close Opening Tag", Lit(">"))

CloseClosingTag == Define("Close Closing Tag", Word(<<"/", ">">>))

\* TextChar (TextChar or space)* [^ \t<]
Text ==
    Define("Text",
           Cat(<<Set(TextChar), Star(Set(TextChar \cup {" "})),
                 NSet({" ", "\t", "<"})>>))

\* Xml.token_types_excluding_text
Xml_token_types_excluding_text ==
    <<OpenXmlDeclaration, CloseXmlDeclaration, TagName, Identifier, Equals,
      String, Comment, Cdata, OpenTag, OpenSelfClosingTag, CloseOpeningTag,
      CloseClosingTag>>

\* Xml.token_types
Xml_token_types == Xml_token_types_excluding_text \o <<Text>>

\* kinds a caller declares with Token.define: a* and (a|<)* match the empty
\* string wherever they do not match more
AStar == Define("AStar", Star(Lit("a")))

Run == Define("Run", Star(Set({"a", "<"})))

\* the Token subclasses that exist; a list of token types refers to them by
\* name (Token.token_type: cls.__name__)
TokenClasses ==
    {Character, Identifier, LeftAngleBracket, RightAngleBracket, Slash, Equals,
     OpenXmlDeclaration, CloseXmlDeclaration, String, TagName, Comment, Cdata,
     OpenTag, OpenSelfClosingTag, CloseOpeningTag, CloseClosingTag, Text,
     AStar, Run, LeftParenthesis, RightParenthesis, Plus, Asterisk, Question,
     Pipe}

\* the references to the classes of a list of token types
Names(token_types) == [i \in 1..Len(token_types) |-> token_types[i].name]

\* the classes a list of references stands for
Resolve(names) ==
    [i \in 1..Len(names) |-> CHOOSE k \in TokenClasses : k.name = names[i]]

-----------------------------------------------------------------------------
(* Lexers *)

\* GenericLexer.__init__
GenericLexer(token_types) ==
    [cls |-> "GenericLexer", token_types |-> Names(token_types)]

\* Xml.Lexer.__init__
XmlLexer == [cls |-> "Xml.Lexer", token_types |-> <<>>]

\* mutant of WHITESPACE: the tab is forgotten
WhitespaceNoTab == {" ", "\n"}

\* Lexer.WHITESPACE
WHITESPACE == {" ", "\t", "\n"}

-----------------------------------------------------------------------------
(* Token *)

\* Token(src, rng): __post_init__ sets lexeme = src[rng]; alternative is unset
Token(kind, s, rng) ==
    [kind |-> kind.name, rng |-> rng, lexeme |-> str_at(s, rng),
     alternative |-> <<>>]

\* Token.len
TokenLen(tok) == PyLen(tok.lexeme)

\* the Token and the Tokens reached from it through `alternative`
RECURSIVE ChainOf(_)
ChainOf(tok) ==
    <<tok>> \o (IF tok.alternative = <<>> THEN <<>>
                ELSE ChainOf(Head(tok.alternative)))

-----------------------------------------------------------------------------
(* Lexer.Error *)

DigitChars == <<"0", "1", "2", "3", "4", "5", "6", "7", "8", "9">>

\* str(n) for n >= 0
RECURSIVE NumStr(_)
NumStr(n) ==
    IF n < 10 THEN <<DigitChars[n + 1]>>
    ELSE NumStr(n \div 10) \o <<DigitChars[(n % 10) + 1]>>

\* k spaces
Spaces(k) == [i \in 1..k |-> " "]

\* f"{n:>{width}}"
RightAlign(n, width) == Spaces(width - Len(NumStr(n))) \o NumStr(n)

\* the rows before and after pos.row asked for in the context window
ContextRows == 3

\* list(range(max(0, pos.row - 3), min(src.rows, pos.row + 3)))
RowsToShow(s, p) ==
    LET lo == Max(0, p.row - ContextRows)
        hi == Min(Rows(s), p.row + ContextRows)
    IN  [i \in 1..Max(0, hi - lo) |-> lo + i - 1]

\* max(len(str(row + 1)) for row in rows_to_show)
RECURSIVE LineNumWidth(_)
\* mutant of LineNumWidth: the width of the number of the first row shown
LineNumWidthOfFirst(rows_to_show) == Len(NumStr(Head(rows_to_show) + 1))

LineNumWidth(rows_to_show) ==
    IF Len(rows_to_show) = 1 THEN Len(NumStr(Head(rows_to_show) + 1))
    ELSE Max(Len(NumStr(Head(rows_to_show) + 1)), LineNumWidth(Tail(rows_to_show)))

\* rows_to_show.index(pos.row): 0-based
IndexOf(seq, x) == (CHOOSE i \in 1..Len(seq) : seq[i] = x /\ \A j \in 1..(i - 1) : seq[j] # x) - 1

\* rows.insert(k, line)
Insert(seq, k, line) == SubSeq(seq, 1, k) \o <<line>> \o SubSeq(seq, k + 1, Len(seq))

\* Lexer.Error(src, pos, msg): the exception and the lines of its text, the
\* message first
LexerError(s, p, msg) ==
    LET rows_to_show == RowsToShow(s, p)
        line_num_width == LineNumWidth(rows_to_show)
        rows == [i \in 1..Len(rows_to_show) |->
                   <<" ", " ">> \o RightAlign(rows_to_show[i] + 1, line_num_width)
                   \o <<" ">> \o s.lines[rows_to_show[i] + 1]]
        caret == <<" ", " ">> \o Spaces(line_num_width) \o <<" ">>
                 \o Spaces(p.col) \o <<"^">>
    IN  [pos |-> p,
         msg |-> msg,
         rows_to_show |-> rows_to_show,
         line_num_width |-> line_num_width,
         text |-> <<msg>> \o Insert(rows, IndexOf(rows_to_show, p.row) + 1, caret)]

\* mutant of CursorStr: the row and the column printed 0-based
CursorStrZeroBased(p) == <<"row ">> \o NumStr(p.row) \o <<" col ">> \o NumStr(p.col)

\* Cursor.__str__: f"row {self.row + 1} col {self.col + 1}"
CursorStr(p) == <<"row ">> \o NumStr(p.row + 1) \o <<" col ">> \o NumStr(p.col + 1)

\* f"could not parse token at {self.pos}"
CouldNotParse(p) == <<"could not parse token at ">> \o CursorStr(p)

-----------------------------------------------------------------------------
(* Lexer.Instance *)

\* skip_whitespace: the cursor walks range(self.pos) and stops on the first
\* position whose character is not in WHITESPACE
RECURSIVE FirstNonWs(_, _, _)
FirstNonWs(s, ps, cur) ==
    IF ps = <<>> THEN cur
    ELSE IF char_at(s, Head(ps)) \notin WHITESPACE THEN Head(ps)
    ELSE FirstNonWs(s, Tail(ps), Head(ps))

\* mutant of skip_whitespace: after skipping whitespace the cursor moves once
\* more, over the character that ended the skipping
skip_whitespaceOneMore(s, p) ==
    LET q == FirstNonWs(s, range(s, p, <<>>), p)
    IN  IF q # p /\ char_at(s, q) # "eof" THEN Head(next1(s, q)) ELSE q

skip_whitespace(s, p) == FirstNonWs(s, range(s, p, <<>>), p)

\* the lines of a source from a row on, joined by line terminators
RECURSIVE JoinedFrom(_, _)
JoinedFrom(s, row) ==
    IF row >= Rows(s) THEN <<>>
    ELSE <<"\n">> \o s.lines[row + 1] \o JoinedFrom(s, row + 1)

\* mutant of MatchAt: the pattern is matched against the rest of the raw
\* text, not the rest of the line
MatchAtRestOfText(kind, s, p) ==
    ReMatch(kind.regex,
            SubSeq(s.lines[p.row + 1], p.col + 1, Cols(s, p.row))
                \o JoinedFrom(s, p.row + 1))

\* token_type.regex().match(self.src.lines[self.pos.row][self.pos.col:])
MatchAt(kind, s, p) ==
    ReMatch(kind.regex, SubSeq(s.lines[p.row + 1], p.col + 1, Cols(s, p.row)))

\* parse_token raises something other than Lexer.Error while it builds the
\* candidate Tokens: StopIteration from next, ValueError from CursorRange
BuildRaises(s, p, token_types) ==
    \E i \in 1..Len(token_types) :
        LET m == MatchAt(token_types[i], s, p)
        IN  /\ m # <<>>
            /\ LET e == nextn(s, p, Head(m))
               IN  e = <<>> \/ RangeRaises(p, Head(e))

\* the list `matches` after the loop over token_types
RECURSIVE MatchesFrom(_, _, _, _)
MatchesFrom(s, p, token_types, i) ==
    IF i > Len(token_types) THEN <<>>
    ELSE LET m == MatchAt(token_types[i], s, p)
         IN  (IF m = <<>> THEN <<>>
              ELSE <<Token(token_types[i], s,
                           CursorRange(p, Head(nextn(s, p, Head(m)))))>>)
             \o MatchesFrom(s, p, token_types, i + 1)

Matches(s, p, token_types) == MatchesFrom(s, p, token_types, 1)

\* sorted(matches, key=lambda token: token.len): a stable sort, by insertion
RECURSIVE InsertByLen(_, _)
InsertByLen(sorted, tok) ==
    IF sorted = <<>> THEN <<tok>>
    ELSE IF TokenLen(Last(sorted)) <= TokenLen(tok) THEN Append(sorted, tok)
    ELSE Append(InsertByLen(SubSeq(sorted, 1, Len(sorted) - 1), tok), Last(sorted))

RECURSIVE SortedByLenFrom(_, _, _)
SortedByLenFrom(matches, i, acc) ==
    IF i > Len(matches) THEN acc
    ELSE SortedByLenFrom(matches, i + 1, InsertByLen(acc, matches[i]))

SortedByLen(matches) == SortedByLenFrom(matches, 1, <<>>)

\* mutant of Longest: the length of matches[0] is taken instead of matches[-1]
LongestFromFirst(sorted) ==
    SelectSeq(sorted, LAMBDA tok : TokenLen(tok) = TokenLen(Head(sorted)))

\* [token for token in matches if token.len == matches[-1].len]
Longest(sorted) ==
    SelectSeq(sorted, LAMBDA tok : TokenLen(tok) = TokenLen(Last(sorted)))

\* result = matches[0]; for match in matches[1:]: match.alternative = result;
\* result = match
RECURSIVE ChainFrom(_, _, _)
ChainFrom(matches, i, res) ==
    IF i > Len(matches) THEN res
    ELSE ChainFrom(matches, i + 1, [matches[i] EXCEPT !.alternative = <<res>>])

\* mutant of Chain: the first tied candidate ends up as the head
ChainFirstWins(matches) == ChainFrom(Reverse(matches), 2, Last(matches))

Chain(matches) == ChainFrom(matches, 2, matches[1])

\* the Token parse_token returns when `matches` is not empty
ParsedToken(s, p, token_types) ==
    Chain(Longest(SortedByLen(Matches(s, p, token_types))))

-----------------------------------------------------------------------------
(* The lex sessions *)

\* mutant of Applicable: the Xml lexer keeps Text in the list once any
\* "Close Opening Tag" has been emitted
ApplicableSticky(s) ==
    IF lexer.cls = "Xml.Lexer"
    THEN IF \E k \in 1..Len(result[s]) : result[s][k].kind = "Close Opening Tag"
         THEN Xml_token_types
         ELSE Xml_token_types_excluding_text
    ELSE Resolve(lexer.token_types)

\* mutant of Applicable: the Xml lexer reads the kind of the last Token from
\* the result list of the first session, whichever session is running
ApplicableShared(s) ==
    IF lexer.cls = "Xml.Lexer"
    THEN IF result[1] # <<>> /\ Last(result[1]).kind = "Close Opening Tag"
         THEN Xml_token_types
         ELSE Xml_token_types_excluding_text
    ELSE Resolve(lexer.token_types)

\* the candidate list of the next parse_token call: oself.token_types in
\* GenericLexer.Instance.lex; in Xml.Lexer.Instance.lex, Xml.token_types after
\* a "Close Opening Tag" and Xml.token_types_excluding_text otherwise
Applicable(s) ==
    IF lexer.cls = "Xml.Lexer"
    THEN IF result[s] # <<>> /\ Last(result[s]).kind = "Close Opening Tag"
         THEN Xml_token_types
         ELSE Xml_token_types_excluding_text
    ELSE Resolve(lexer.token_types)

\* lex never returns once a Token of length 0 is emitted (the cursor stays
\* and the same Token is found again): such a run is followed until result
\* holds MaxTokens Tokens
Stuck(s) ==
    /\ Len(result[s]) >= MaxTokens
    /\ Last(result[s]).rng.start = Last(result[s]).rng.end

\* Lexer.lex creates the Instance (pos = Cursor(0, 0)); Instance.lex starts
\* with result = [] and skip_whitespace()
LexStart(s) ==
    /\ pc[s] = "start"
    /\ pos' = [pos EXCEPT ![s] = skip_whitespace(src[s], Cursor(0, 0))]
    /\ result' = [result EXCEPT ![s] = <<>>]
    /\ pc' = [pc EXCEPT ![s] = "loop"]
    /\ UNCHANGED <<lexer, src, err, steps, call>>

\* the while condition fails: return result
LexReturn(s) ==
    /\ pc[s] = "loop"
    /\ char_at(src[s], pos[s]) = "eof"
    /\ pc' = [pc EXCEPT ![s] = "returned"]
    /\ UNCHANGED <<lexer, src, pos, result, err, steps, call>>

\* a parse_token call that finds a match: the Token is appended to result,
\* the cursor moves to the end of its range and over the whitespace after it
ParseTokenOk(s) ==
    /\ pc[s] = "loop"
    /\ char_at(src[s], pos[s]) # "eof"
    /\ ~Stuck(s)
    /\ LET token_types == Applicable(s)
       IN  /\ steps' = [steps EXCEPT ![s] =
                          Append(@, [entry |-> pos[s], token_types |-> Names(token_types)])]
           /\ IF BuildRaises(src[s], pos[s], token_types)
              THEN /\ pc' = [pc EXCEPT ![s] = "crashed"]
                   /\ UNCHANGED <<pos, result>>
              ELSE /\ Matches(src[s], pos[s], token_types) # <<>>
                   /\ LET tok == ParsedToken(src[s], pos[s], token_types)
                      IN  /\ pos' = [pos EXCEPT ![s] =
                                       skip_whitespace(src[s], tok.rng.end)]
                          /\ result' = [result EXCEPT ![s] = Append(@, tok)]
                   /\ UNCHANGED pc
    /\ UNCHANGED <<lexer, src, err, call>>

\* a parse_token call that finds no match: Lexer.Error is raised and ends lex
ParseTokenFail(s) ==
    /\ pc[s] = "loop"
    /\ char_at(src[s], pos[s]) # "eof"
    /\ ~Stuck(s)
    /\ LET token_types == Applicable(s)
       IN  /\ ~BuildRaises(src[s], pos[s], token_types)
           /\ Matches(src[s], pos[s], token_types) = <<>>
           /\ steps' = [steps EXCEPT ![s] =
                          Append(@, [entry |-> pos[s], token_types |-> Names(token_types)])]
    /\ err' = [err EXCEPT ![s] =
                 <<LexerError(src[s], pos[s], CouldNotParse(pos[s]))>>]
    /\ pc' = [pc EXCEPT ![s] = "raised"]
    /\ UNCHANGED <<lexer, src, pos, result, call>>

Next == \E s \in Sessions :
            LexStart(s) \/ LexReturn(s) \/ ParseTokenOk(s) \/ ParseTokenFail(s)

-----------------------------------------------------------------------------
(* Inputs *)

\* the characters of the raw texts lexed under Spec
Alphabet == {"a", "<", ">", "/", " ", "\t", "\n"}

\* the vocabularies a GenericLexer is built with
Vocabularies ==
    { <<Character, TagName, Identifier, LeftAngleBracket>>,
      <<AStar, Character, RightAngleBracket, Run>> }

Lexers == {GenericLexer(v) : v \in Vocabularies} \cup {XmlLexer}

\* no Source method has been called directly
NoCall ==
    [op |-> "none", raw |-> <<>>, start |-> Cursor(0, 0), end |-> Cursor(0, 0),
     n |-> 0, to |-> <<>>, text |-> <<>>, len |-> 0]

\* one session lexes raw with lexer l; the other never starts
InitWith(l, raw) ==
    /\ call = NoCall
    /\ lexer = l
    /\ src = [s \in Sessions |-> IF s = 1 THEN Source(raw) ELSE Source(<<>>)]
    /\ pos = [s \in Sessions |-> Cursor(0, 0)]
    /\ result = [s \in Sessions |-> <<>>]
    /\ pc = [s \in Sessions |-> IF s = 1 THEN "start" ELSE "off"]
    /\ err = [s \in Sessions |-> <<>>]
    /\ steps = [s \in Sessions |-> <<>>]

Init == \E l \in Lexers : \E raw \in SeqsUpTo(Alphabet, MaxSrcLen) : InitWith(l, raw)

Spec == Init /\ [][Next]_vars

\* test_0: a vocabulary whose patterns each match one character, and its text
Test0TokenTypes ==
    <<Asterisk, Character, LeftParenthesis, Pipe, Plus, RightParenthesis,
      Question>>

Test0Str == <<"a", "*", "b", "+", "(", "c", "|", "d", ")", "?">>

\* the characters of the other raw texts lexed with that vocabulary; = is in
\* none of its patterns
CharsAlphabet == {"a", "*", "(", "|", "=", " ", "\n"}

InitChars ==
    \E raw \in SeqsUpTo(CharsAlphabet, MaxSrcLen) \cup {Test0Str} :
        InitWith(GenericLexer(Test0TokenTypes), raw)

SpecChars == InitChars /\ [][Next]_vars

\* two lex calls on one lexer object, each with its own Instance, their
\* steps interleaved in any order; the sources may be equal
TwoAlphabet == {"a", ">", "/"}

InitTwo ==
    \E l \in Lexers : \E raw1, raw2 \in SeqsUpTo(TwoAlphabet, MaxTwoLen) :
        /\ lexer = l
        /\ src = [s \in Sessions |-> IF s = 1 THEN Source(raw1) ELSE Source(raw2)]
        /\ pos = [s \in Sessions |-> Cursor(0, 0)]
        /\ result = [s \in Sessions |-> <<>>]
        /\ pc = [s \in Sessions |-> "start"]
        /\ err = [s \in Sessions |-> <<>>]
        /\ steps = [s \in Sessions |-> <<>>]
        /\ call = NoCall

SpecTwo == InitTwo /\ [][Next]_vars

\* direct calls of the methods of a Source built from a raw text
SourceAlphabet == {"a", " ", "\n"}

InitSource ==
    \E raw \in SeqsUpTo(SourceAlphabet, MaxSrcLen) :
        /\ lexer = XmlLexer
        /\ src = [s \in Sessions |-> IF s = 1 THEN Source(raw) ELSE Source(<<>>)]
        /\ pos = [s \in Sessions |-> Cursor(0, 0)]
        /\ result = [s \in Sessions |-> <<>>]
        /\ pc = [s \in Sessions |-> "off"]
        /\ err = [s \in Sessions |-> <<>>]
        /\ steps = [s \in Sessions |-> <<>>]
        /\ call = [NoCall EXCEPT !.op = "Source", !.raw = raw]

\* src.next(p, n=n) at a valid position p
CallNext ==
    /\ call.op # "none"
    /\ \E row \in 0..(Rows(src[1]) - 1) : \E col \in 0..Cols(src[1], row) :
       \E n \in 0..MaxHops :
           /\ Valid(src[1], Cursor(row, col))
           /\ call' = [call EXCEPT !.op = "next", !.start = Cursor(row, col),
                                   !.end = Cursor(0, 0), !.n = n,
                                   !.to = nextn(src[1], Cursor(row, col), n),
                                   !.text = <<>>, !.len = 0]
    /\ UNCHANGED <<lexer, src, pos, result, pc, err, steps>>

\* src[CursorRange(start, end)] and src.len(CursorRange(start, end)) over
\* valid positions
CallStrAt ==
    /\ call.op # "none"
    /\ \E r1 \in 0..(Rows(src[1]) - 1) : \E c1 \in 0..Cols(src[1], r1) :
       \E r2 \in 0..(Rows(src[1]) - 1) : \E c2 \in 0..Cols(src[1], r2) :
           /\ ~RangeRaises(Cursor(r1, c1), Cursor(r2, c2))
           /\ LET rng == CursorRange(Cursor(r1, c1), Cursor(r2, c2))
              IN  call' = [call EXCEPT !.op = "str_at", !.start = rng.start,
                                      !.end = rng.end, !.n = 0, !.to = <<>>,
                                      !.text = str_at(src[1], rng),
                                      !.len = SrcLen(src[1], rng)]
    /\ UNCHANGED <<lexer, src, pos, result, pc, err, steps>>

NextSource == CallNext \/ CallStrAt

SpecSource == InitSource /\ [][NextSource]_vars

\* the raw texts lexed under SpecDiag: a short body between blank lines; ?
\* is in no pattern of the vocabularies
Newlines(k) == [i \in 1..k |-> "\n"]

DiagTexts ==
    {Newlines(k) \o body \o Newlines(m) :
        k \in 0..MaxDiagPad, m \in 0..MaxDiagPad,
        body \in SeqsUpTo({"?", "a", " "}, MaxDiagBody)}

InitDiag == \E l \in Lexers : \E raw \in DiagTexts : InitWith(l, raw)

SpecDiag == InitDiag /\ [][Next]_vars

-----------------------------------------------------------------------------
(* Vocabulary of the properties *)

\* the positions of a source: every character and the end of every line
Positions(s) ==
    UNION {{Cursor(r, c) : c \in 0..Len(s.lines[r + 1])} : r \in 0..(Len(s.lines) - 1)}

\* the parse_token calls of session s that returned a Token: call k appended
\* result[s][k] and is recorded as steps[s][k]
Emitted(s) == 1..Len(result[s])

\* the candidate list of the k-th parse_token call of session s
StepKinds(s, k) == Resolve(steps[s][k].token_types)

\* the last parse_token call of session s raised Lexer.Error
Failed(s) == pc[s] = "raised"

\* the lengths the kinds of token_types match at p
MatchLens(s, p, token_types) ==
    LET lens == [i \in 1..Len(token_types) |-> MatchAt(token_types[i], s, p)]
    IN  {lens[i][1] : i \in {j \in 1..Len(lens) : lens[j] # <<>>}}

MaxOf(S) == CHOOSE n \in S : \A m \in S : m <= n

\* the names of the kinds of token_types that match the maximal length at p,
\* in the order of token_types
TiedKinds(s, p, token_types) ==
    LET lens == [i \in 1..Len(token_types) |-> MatchAt(token_types[i], s, p)]
        best == MaxOf({lens[i][1] : i \in {j \in 1..Len(lens) : lens[j] # <<>>}})
        at == SelectSeq([i \in 1..Len(lens) |-> i], LAMBDA i : lens[i] = <<best>>)
    IN  [i \in 1..Len(at) |-> token_types[at[i]].name]

\* the names of the kinds along the alternative chain of tok, tok first
ChainKinds(tok) == [i \in 1..Len(ChainOf(tok)) |-> ChainOf(tok)[i].kind]

-----------------------------------------------------------------------------
(* C1 .. C5 *)

\* C1: when two or more kinds of the candidate list match the same maximal
\* length at the cursor, the kinds met from the returned Token along
\* `alternative` are exactly the tied kinds in the reverse of candidate order
\* (so the returned kind is the last tied one, the chain ends in a Token with
\* no alternative, and no kind with a shorter match is in it).
C1_TieBreak ==
    \A s \in Sessions : \A k \in Emitted(s) :
        LET tied == TiedKinds(src[s], steps[s][k].entry, StepKinds(s, k))
        IN  Len(tied) >= 2 =>
              /\ ChainKinds(result[s][k]) = Reverse(tied)
              /\ result[s][k].kind = Last(tied)
              /\ Last(ChainOf(result[s][k])).alternative = <<>>

\* a three-way tie, and a two-way tie beside a kind that matched less
C1_Witness ==
    \E s \in Sessions : \E k, j \in Emitted(s) :
        /\ Len(TiedKinds(src[s], steps[s][k].entry, StepKinds(s, k))) >= 3
        /\ Len(ChainOf(result[s][k])) >= 3
        /\ Len(TiedKinds(src[s], steps[s][j].entry, StepKinds(s, j))) = 2
        /\ Cardinality(MatchLens(src[s], steps[s][j].entry, StepKinds(s, j))) >= 2

\* C2: no kind of the candidate list of the step that emitted a Token matches,
\* at the Token's range.start, a prefix longer than the Token's range.
C2_LongestMatch ==
    \A s \in Sessions : \A k \in Emitted(s) :
        LET tok == result[s][k]
        IN  /\ tok.rng.start.row = tok.rng.end.row
            /\ \A n \in MatchLens(src[s], tok.rng.start, StepKinds(s, k)) :
                   n <= tok.rng.end.col - tok.rng.start.col

\* the Xml lexer has emitted a Token where another kind matched a shorter prefix
C2_Witness ==
    \E s \in Sessions : \E k \in Emitted(s) :
        /\ lexer.cls = "Xml.Lexer"
        /\ \E n \in MatchLens(src[s], result[s][k].rng.start, StepKinds(s, k)) :
               n < result[s][k].rng.end.col - result[s][k].rng.start.col

\* C3 (as claimed): a parse_token call that returns a Token leaves the cursor
\* strictly after the position it was called at.
C3_StepAdvances ==
    [][\A s \in Sessions :
          Len(result'[s]) > Len(result[s]) => CursorLt(pos[s], pos'[s])]_vars

\* C4 (as claimed): parse_token raises exactly when no candidate kind matches
\* a non-empty prefix at the cursor, and every emitted Token and every
\* alternative of it has range.start < range.end and a lexeme of length >= 1.
C4_NonEmptyTokens ==
    \A s \in Sessions :
        /\ \A k \in 1..Len(steps[s]) :
               (k > Len(result[s]) /\ Failed(s))
               <=> (MatchLens(src[s], steps[s][k].entry, StepKinds(s, k)) \ {0} = {})
        /\ \A k \in Emitted(s) : \A i \in 1..Len(ChainOf(result[s][k])) :
               LET tok == ChainOf(result[s][k])[i]
               IN  CursorLt(tok.rng.start, tok.rng.end) /\ Len(tok.lexeme) >= 1

\* C5: after a failed parse_token call the error names the position the call
\* was entered at, in its message (1-based, as Cursor prints it) and with its
\* caret (under the failing row, pos.col columns into the line); the cursor
\* still stands there, and the failed call is the last one of the session.
C5_FailurePosition ==
    \A s \in Sessions : Failed(s) =>
        LET entry == Last(steps[s]).entry
            e == Head(err[s])
            at == CHOOSE i \in 2..Len(e.text) : Last(e.text[i]) = "^"
            shown == <<" ">> \o src[s].lines[entry.row + 1]
        IN  /\ err[s] # <<>>
            /\ Len(steps[s]) = Len(result[s]) + 1
            /\ pos[s] = entry
            /\ e.text[1] = <<"could not parse token at ", "row ">>
                           \o NumStr(entry.row + 1) \o <<" col ">> \o NumStr(entry.col + 1)
            /\ \E i \in 2..Len(e.text) : Last(e.text[i]) = "^"
            /\ at > 2
            /\ \E n \in 0..Len(e.text[at - 1]) :
                   /\ e.text[at - 1] = <<" ", " ">> \o Spaces(n)
                                       \o NumStr(entry.row + 1) \o shown
                   /\ e.text[at] = Spaces(2 + n + Len(NumStr(entry.row + 1)) + 1 + entry.col)
                                   \o <<"^">>

\* a call failed after a Token was emitted, away from row 0 and from col 0
C5_Witness ==
    \E s \in Sessions :
        /\ Failed(s)
        /\ result[s] # <<>>
        /\ pos[s].row > 0
        /\ pos[s].col > 0

-----------------------------------------------------------------------------
(* C6 .. C10 *)

\* C6: consecutive Tokens of result do not overlap and are in order, and every
\* logical character from the end of one up to the start of the next is a
\* space, a tab or a newline.
C6_OrderedRanges ==
    \A s \in Sessions : \A k \in Emitted(s) \ {Len(result[s])} :
        LET a == result[s][k].rng.end
            b == result[s][k + 1].rng.start
        IN  /\ CursorLe(a, b)
            /\ \A p \in Positions(src[s]) :
                   (CursorLe(a, p) /\ CursorLt(p, b)) =>
                       char_at(src[s], p) \in {" ", "\t", "\n"}

\* lex returned Tokens of which two are adjacent and two are separated by
\* whitespace that holds a line break
C6_Witness ==
    \E s \in Sessions : \E k, j \in Emitted(s) \ {Len(result[s])} :
        /\ pc[s] = "returned"
        /\ result[s][k].rng.end = result[s][k + 1].rng.start
        /\ result[s][j].rng.end.row < result[s][j + 1].rng.start.row

\* C7: when lex has returned, every position whose logical character is not
\* whitespace and not the end-of-input marker lies in the range of exactly one
\* Token of result.
C7_NothingSkipped ==
    \A s \in Sessions : pc[s] = "returned" =>
        \A p \in Positions(src[s]) :
            char_at(src[s], p) \notin {" ", "\t", "\n", "eof"} =>
                Cardinality({k \in Emitted(s) :
                                /\ CursorLe(result[s][k].rng.start, p)
                                /\ CursorLt(p, result[s][k].rng.end)}) = 1

\* lex returned two Tokens or more from a text with whitespace before the
\* first Token and after the last one
C7_Witness ==
    \E s \in Sessions :
        /\ pc[s] = "returned"
        /\ Len(result[s]) >= 2
        /\ result[s][1].rng.start # Cursor(0, 0)
        /\ Last(result[s]).rng.end # pos[s]

\* every character of the source is a space or a tab (its lines are joined by
\* newlines)
WhitespaceOnly(s) ==
    \A r \in 1..Len(s.lines) : \A c \in 1..Len(s.lines[r]) : s.lines[r][c] \in {" ", "\t"}

\* C8: a session over an empty or whitespace-only source never calls
\* parse_token and raises nothing: after the leading skip the cursor is at
\* end-of-input, so lex returns the empty result.
C8_WhitespaceOnly ==
    \A s \in Sessions : (WhitespaceOnly(src[s]) /\ pc[s] \notin {"off", "start"}) =>
        /\ pc[s] \in {"loop", "returned"}
        /\ result[s] = <<>>
        /\ err[s] = <<>>
        /\ steps[s] = <<>>
        /\ char_at(src[s], pos[s]) = "eof"
        /\ pc[s] = "loop" => ENABLED LexReturn(s)

\* the Xml lexer returned from a source of several lines holding a space and a tab
C8_Witness ==
    \E s \in Sessions :
        /\ pc[s] = "returned"
        /\ lexer.cls = "Xml.Lexer"
        /\ WhitespaceOnly(src[s])
        /\ Len(src[s].lines) >= 2
        /\ \E r \in 1..Len(src[s].lines) : \E c \in 1..Len(src[s].lines[r]) :
               src[s].lines[r][c] = "\t"
        /\ \E r \in 1..Len(src[s].lines) : \E c \in 1..Len(src[s].lines[r]) :
               src[s].lines[r][c] = " "

\* C9: the lexeme of every emitted Token, and of every Token of its
\* alternative chain, is the piece of its line from range.start.col to
\* range.end.col; its length is the length its kind matched at range.start
\* and the number of positions of the range, and it holds no end-of-input
\* marker.
C9_LexemeIsSubstring ==
    \A s \in Sessions : \A k \in Emitted(s) : \A i \in 1..Len(ChainOf(result[s][k])) :
        LET tok == ChainOf(result[s][k])[i]
            line == src[s].lines[tok.rng.start.row + 1]
        IN  /\ tok.rng.start.row = tok.rng.end.row
            /\ tok.lexeme = SubSeq(line, tok.rng.start.col + 1, tok.rng.end.col)
            /\ \E j \in 1..Len(StepKinds(s, k)) :
                   /\ StepKinds(s, k)[j].name = tok.kind
                   /\ MatchAt(StepKinds(s, k)[j], src[s], tok.rng.start)
                        = <<Len(tok.lexeme)>>
            /\ Len(tok.lexeme) = tok.rng.end.col - tok.rng.start.col
            /\ \A c \in 1..Len(tok.lexeme) : tok.lexeme[c] # "eof"

\* a Token of two characters or more, with an alternative, that starts after
\* column 0 of a row after row 0 and ends at the end of the text
C9_Witness ==
    \E s \in Sessions : \E k \in Emitted(s) :
        /\ Len(result[s][k].lexeme) >= 2
        /\ result[s][k].alternative # <<>>
        /\ result[s][k].rng.start.row > 0
        /\ result[s][k].rng.start.col > 0
        /\ char_at(src[s], result[s][k].rng.end) = "eof"

\* C10 (as claimed): the error text of a failure at row r of a source of R
\* rows shows exactly the rows max(0, r - 3) .. min(R - 1, r + 3), each once
\* and in increasing order, with the caret line as the only other line after
\* the message.
C10_ContextWindow ==
    \A s \in Sessions : Failed(s) =>
        LET r == Last(steps[s]).entry.row
            lo == IF r - 3 > 0 THEN r - 3 ELSE 0
            hi == IF r + 3 < Len(src[s].lines) - 1 THEN r + 3 ELSE Len(src[s].lines) - 1
            e == Head(err[s])
            shown == SelectSeq(SubSeq(e.text, 2, Len(e.text)), LAMBDA l : Last(l) # "^")
        IN  /\ Len(shown) = hi - lo + 1
            /\ Len(e.text) = Len(shown) + 2
            /\ \A i \in 1..Len(shown) :
                   \E n \in 0..Len(shown[i]) :
                       shown[i] = <<" ", " ">> \o Spaces(n) \o NumStr(lo + i)
                                  \o <<" ">> \o src[s].lines[lo + i]

-----------------------------------------------------------------------------
(* C11 .. C19 *)

\* C11: in a session of the Xml lexer the candidate list of a parse_token
\* call is Xml.token_types (with Text) exactly when the Token returned by the
\* call before it is a "Close Opening Tag", and is
\* Xml.token_types_excluding_text (without Text) at the first call and after
\* a returned Token of any other kind.
C11_XmlMode ==
    \A s \in Sessions : lexer.cls = "Xml.Lexer" =>
        \A k \in 1..Len(steps[s]) :
            LET after_close == k > 1 /\ result[s][k - 1].kind = "Close Opening Tag"
                names == steps[s][k].token_types
            IN  /\ (\E i \in 1..Len(names) : names[i] = "Text") <=> after_close
                /\ after_close => names = Names(Xml_token_types)
                /\ ~after_close => names = Names(Xml_token_types_excluding_text)

\* a call after > tried Text, a later call after < or </ did not, and a Text
\* Token has been emitted
C11_Witness ==
    \E s \in Sessions : \E k, j \in 2..Len(steps[s]) :
        /\ lexer.cls = "Xml.Lexer"
        /\ k < j
        /\ result[s][k - 1].kind = "Close Opening Tag"
        /\ \E i \in 1..Len(steps[s][k].token_types) : steps[s][k].token_types[i] = "Text"
        /\ result[s][j - 1].kind \in {"Open Tag", "Open Self-closing Tag"}
        /\ \A i \in 1..Len(steps[s][j].token_types) : steps[s][j].token_types[i] # "Text"

\* the characters of a source that are not whitespace, with their positions,
\* in reading order
RowChars(s, row) ==
    SelectSeq([c \in 1..Cols(s, row) |->
                  [pos |-> Cursor(row, c - 1), ch |-> s.lines[row + 1][c]]],
              LAMBDA e : e.ch \notin {" ", "\t", "\n"})

RECURSIVE CharsFrom(_, _)
CharsFrom(s, row) ==
    IF row >= Rows(s) THEN <<>> ELSE RowChars(s, row) \o CharsFrom(s, row + 1)

\* the characters some pattern of the list matches
Recognised(token_types, ch) ==
    \E i \in 1..Len(token_types) : ReMatch(token_types[i].regex, <<ch>>) # <<>>

\* C12: with the single-character vocabulary of test_0 the k-th Token of
\* result is the k-th non-whitespace character of the source, with a range of
\* one column at that character; when lex returns there is one Token for
\* each such character; a source whose non-whitespace characters are all
\* recognised raises nothing; and a*b+(c|d)? yields the ten lexemes of test_0.
C12_OneTokenPerChar ==
    \A s \in Sessions : lexer = GenericLexer(Test0TokenTypes) =>
        LET cs == CharsFrom(src[s], 0)
        IN  /\ Len(result[s]) <= Len(cs)
            /\ \A k \in 1..Len(result[s]) :
                   /\ result[s][k].lexeme = <<cs[k].ch>>
                   /\ result[s][k].rng.start = cs[k].pos
                   /\ result[s][k].rng.end = Cursor(cs[k].pos.row, cs[k].pos.col + 1)
            /\ pc[s] = "returned" => Len(result[s]) = Len(cs)
            /\ (\A k \in 1..Len(cs) : Recognised(Test0TokenTypes, cs[k].ch))
                   => pc[s] \notin {"raised", "crashed"}
            /\ (pc[s] = "returned" /\ src[s] = Source(Test0Str))
                   => [k \in 1..Len(result[s]) |-> Head(result[s][k].lexeme)] = Test0Str

\* lex has returned the ten Tokens of test_0
C12_Witness ==
    /\ lexer = GenericLexer(Test0TokenTypes)
    /\ src[1] = Source(Test0Str)
    /\ pc[1] = "returned"
    /\ Len(result[1]) = 10

\* C13: every Token starts at the cursor its parse_token call was entered
\* with, the cursor after the call (where the next call is entered, or where
\* it stands now) is at or after the end of the Token, the cursor is always
\* a valid position of the source, and no step of lex moves it backward.
C13_CursorCoupling ==
    /\ [](\A s \in Sessions :
            /\ Valid(src[s], pos[s])
            /\ \A k \in Emitted(s) :
                   /\ result[s][k].rng.start = steps[s][k].entry
                   /\ CursorLe(result[s][k].rng.end,
                               IF k < Len(steps[s]) THEN steps[s][k + 1].entry
                               ELSE pos[s]))
    /\ [][\A s \in Sessions : CursorLe(pos[s], pos'[s])]_vars

\* a Token was emitted, the cursor went past its end over a line break, and
\* the next call was entered there
C13_Witness ==
    \E s \in Sessions : \E k \in Emitted(s) :
        /\ k < Len(steps[s])
        /\ CursorLt(result[s][k].rng.start, result[s][k].rng.end)
        /\ steps[s][k + 1].entry.row > result[s][k].rng.end.row
        /\ steps[s][k + 1].entry.col > 0

\* the least position at or after p whose logical character is not a space,
\* a tab or a line terminator (the end-of-input marker is none of them)
LeastNonBlank(s, p) ==
    CHOOSE q \in Positions(s) :
        /\ CursorLe(p, q)
        /\ char_at(s, q) \notin {" ", "\t", "\n"}
        /\ \A r \in Positions(s) :
               (CursorLe(p, r) /\ char_at(s, r) \notin {" ", "\t", "\n"})
                   => CursorLe(q, r)

\* C14: from any position skip_whitespace leaves the cursor on the least
\* position at or after it that holds no whitespace (end-of-input where there
\* is none; the same position when it already holds none); after
\* the leading skip and after each Token the cursor of lex stands there, and
\* every parse_token call is entered on a character that is neither
\* whitespace, a line terminator nor end-of-input.
C14_SkipWhitespace ==
    \A s \in Sessions :
        /\ \A p \in Positions(src[s]) :
               skip_whitespace(src[s], p) = LeastNonBlank(src[s], p)
        /\ pc[s] \notin {"start", "off"} =>
               pos[s] = LeastNonBlank(src[s],
                                      IF result[s] = <<>> THEN Cursor(0, 0)
                                      ELSE Last(result[s]).rng.end)
        /\ \A k \in 1..Len(steps[s]) :
               char_at(src[s], steps[s][k].entry) \notin {" ", "\t", "\n", "eof"}

\* after a Token the cursor skipped a tab and a line break, and the next
\* call was entered on the character after them
C14_Witness ==
    \E s \in Sessions : \E k \in Emitted(s) :
        /\ k < Len(steps[s])
        /\ char_at(src[s], result[s][k].rng.end) = "\t"
        /\ steps[s][k + 1].entry.row > result[s][k].rng.end.row

\* C15: every Token of result and every alternative chained to it has a range
\* that starts and ends on the same row, ends at or before the length of
\* that line, and a lexeme without a line terminator.
C15_SingleLine ==
    \A s \in Sessions : \A k \in Emitted(s) :
        LET chain == ChainOf(result[s][k])
        IN  \A i \in 1..Len(chain) :
                /\ chain[i].rng.start.row = chain[i].rng.end.row
                /\ chain[i].rng.end.col <= Len(src[s].lines[chain[i].rng.end.row + 1])
                /\ \A j \in 1..Len(chain[i].lexeme) : chain[i].lexeme[j] # "\n"

\* a Token with an alternative ends where its line ends, a line that is not
\* the last, and a Token of the next line follows
C15_Witness ==
    \E s \in Sessions : \E k \in Emitted(s) :
        /\ k < Len(result[s])
        /\ result[s][k].alternative # <<>>
        /\ CursorLt(result[s][k].rng.start, result[s][k].rng.end)
        /\ char_at(src[s], result[s][k].rng.end) = "\n"
        /\ result[s][k + 1].rng.start.row = result[s][k].rng.end.row + 1

\* the end-of-input position of a source: the end of its last line
EofPos(s) == Cursor(Rows(s) - 1, Cols(s, Rows(s) - 1))

\* the least position of the source strictly after p
LeastAfter(s, p) ==
    CHOOSE q \in Positions(s) :
        /\ CursorLt(p, q)
        /\ \A r \in Positions(s) : CursorLt(p, r) => CursorLe(q, r)

\* k times the least position after, from p: <<>> as soon as one would start
\* at the end-of-input position
RECURSIVE Hops(_, _, _)
Hops(s, p, k) ==
    IF k = 0 THEN <<p>>
    ELSE IF p = EofPos(s) THEN <<>>
    ELSE Hops(s, LeastAfter(s, p), k - 1)

\* C16: at a valid position other than the end-of-input position next gives
\* the least position of the source strictly after it in row-major order; at
\* the end-of-input position it raises StopIteration; and next(pos, n=k),
\* k >= 0, gives what k single applications give: pos for k = 0,
\* StopIteration as soon as one of them starts at the end-of-input position.
C16_Next ==
    call.op = "next" =>
        /\ call.to = Hops(src[1], call.start, call.n)
        /\ (call.n = 1 /\ call.start # EofPos(src[1]))
               => call.to = <<LeastAfter(src[1], call.start)>>
        /\ (call.n = 1 /\ call.start = EofPos(src[1])) => call.to = <<>>
        /\ call.n = 0 => call.to = <<call.start>>

\* next(pos, n=3) went over the end of a line onto the next row
C16_Witness ==
    /\ call.op = "next"
    /\ call.n = 3
    /\ call.to # <<>>
    /\ Head(call.to).row = call.start.row + 1
    /\ Head(call.to).col > 0

\* C19: for the Source built from a raw text, the text over the range from
\* Cursor(0, 0) to the end-of-input position is the raw text, and the length
\* of that range is the length of the raw text.
C19_RoundTrip ==
    (/\ call.op = "str_at"
     /\ call.start = Cursor(0, 0)
     /\ call.end = EofPos(src[1]))
        => /\ src[1] = Source(call.raw)
           /\ call.text = call.raw
           /\ call.len = Len(call.raw)

\* the whole text of a source of three lines, the last one empty, was taken
C19_Witness ==
    /\ call.op = "str_at"
    /\ call.start = Cursor(0, 0)
    /\ call.end = EofPos(src[1])
    /\ Rows(src[1]) = 3
    /\ Cols(src[1], 2) = 0
    /\ Len(call.text) > 2

\* a line of spaces that ends in one caret
IsCaretLine(line) ==
    /\ Len(line) >= 1
    /\ line[Len(line)] = "^"
    /\ \A j \in 1..(Len(line) - 1) : line[j] = " "

\* C17: the text of a Lexer.Error has exactly one line made of spaces and a
\* final caret; the line above it is the failing row's line (two spaces, the
\* right-aligned row number, a space, the source line); and the caret stands
\* in the column of the character at the failing column of that line, the
\* width of the prefix plus pos.col, for every width of the row numbers.
C17_CaretPlacement ==
    \A s \in Sessions : Failed(s) =>
        LET e == Head(err[s])
            row == e.pos.row
            col == e.pos.col
            line == src[s].lines[row + 1]
            carets == {i \in 1..Len(e.text) : IsCaretLine(e.text[i])}
        IN  /\ Cardinality(carets) = 1
            /\ LET at == CHOOSE i \in carets : TRUE
                   above == e.text[at - 1]
                   w == Len(above) - Len(line)
               IN  /\ at > 2
                   /\ w >= 3 + Len(NumStr(row + 1))
                   /\ above = <<" ", " ">> \o Spaces(w - 3 - Len(NumStr(row + 1)))
                              \o NumStr(row + 1) \o <<" ">> \o line
                   /\ \A i \in 2..Len(e.text) : i # at =>
                          /\ Len(e.text[i]) >= w
                          /\ e.text[i][w] = " "
                          /\ e.text[i][w - 1] \in {DigitChars[d] : d \in 1..10}
                   /\ Len(e.text[at]) = w + col + 1
                   /\ col < Len(line)
                   /\ above[Len(e.text[at])] = line[col + 1]

\* a failure with row numbers of two widths in the text: the failing row's
\* number is padded, and the failing column is not the first
C17_Witness ==
    \E s \in Sessions :
        /\ Failed(s)
        /\ Head(err[s]).pos.row + 1 < 10
        /\ Head(err[s]).pos.col > 0
        /\ \E i \in 2..Len(Head(err[s]).text) :
               Head(err[s]).text[i][3] = "1" /\ Head(err[s]).text[i][4] = "0"

\* what one lex call of lexer l over source s gives with no other call
\* around: the loop of Instance.lex run from cursor p with result res
RECURSIVE LexFrom(_, _, _, _)
LexFrom(l, s, p, res) ==
    IF char_at(s, p) = "eof"
    THEN [pc |-> "returned", result |-> res, err |-> <<>>]
    ELSE IF /\ Len(res) >= MaxTokens
            /\ Last(res).rng.start = Last(res).rng.end
    THEN [pc |-> "loop", result |-> res, err |-> <<>>]
    ELSE LET token_types ==
                 IF l.cls = "Xml.Lexer"
                 THEN IF res # <<>> /\ Last(res).kind = "Close Opening Tag"
                      THEN Xml_token_types
                      ELSE Xml_token_types_excluding_text
                 ELSE Resolve(l.token_types)
         IN  IF BuildRaises(s, p, token_types)
             THEN [pc |-> "crashed", result |-> res, err |-> <<>>]
             ELSE IF Matches(s, p, token_types) = <<>>
             THEN [pc |-> "raised", result |-> res,
                   err |-> <<LexerError(s, p, CouldNotParse(p))>>]
             ELSE LET tok == ParsedToken(s, p, token_types)
                  IN  LexFrom(l, s, skip_whitespace(s, tok.rng.end),
                              Append(res, tok))

LexAlone(l, s) == LexFrom(l, s, skip_whitespace(s, Cursor(0, 0)), <<>>)

\* C18: however the steps of the two sessions are interleaved, the Tokens a
\* session has emitted are the first Tokens of what its lex call gives alone,
\* and a session that has ended has returned that Token sequence, or raised
\* that error, exactly.
C18_SessionIndependence ==
    \A s \in Sessions :
        LET alone == LexAlone(lexer, src[s])
        IN  /\ Len(result[s]) <= Len(alone.result)
            /\ result[s] = SubSeq(alone.result, 1, Len(result[s]))
            /\ pc[s] \in {"returned", "raised", "crashed"} =>
                   /\ pc[s] = alone.pc
                   /\ result[s] = alone.result
                   /\ err[s] = alone.err

\* both sessions of an Xml lexer have ended, one by an error after a Close
\* Opening Tag and one by returning Tokens, over different sources
C18_Witness ==
    /\ lexer.cls = "Xml.Lexer"
    /\ src[1] # src[2]
    /\ pc[1] = "raised"
    /\ result[1] # <<>>
    /\ Last(result[1]).kind = "Close Opening Tag"
    /\ pc[2] = "returned"
    /\ Len(result[2]) >= 1

=============================================================================
